---- MODULE Spec2Model ----
(***************************************************************************)
(* Model of the Tautulli -> TRMNL relay.  Three deployments of the handler *)
(* exist in the repository:                                                *)
(*   "direct" : src/main.go          query parameters, direct poster URLs  *)
(*   "proxy"  : src/unnamed/part_003 query parameters, local /image proxy  *)
(*   "env"    : src/unnamed/part_002 process configuration, text layout    *)
(* Strings are sequences of one-character strings, so that escaping,       *)
(* parsing and concatenation are computed character by character.          *)
(***************************************************************************)
EXTENDS Integers, Sequences, FiniteSets, TLC

VARIABLES variant, pc, req, outbound, upstream, resp, logged, page

vars == <<variant, pc, req, outbound, upstream, resp, logged, page>>

-----------------------------------------------------------------------------
(* Characters and string helpers                                           *)

Digits == {"0", "1", "2", "3", "4", "5", "6", "7", "8", "9"}

LowerSeq == <<"a", "b", "c", "d", "e", "f", "g", "h", "i", "j", "k", "l", "m",
              "n", "o", "p", "q", "r", "s", "t", "u", "v", "w", "x", "y", "z">>

UpperSeq == <<"A", "B", "C", "D", "E", "F", "G", "H", "I", "J", "K", "L", "M",
              "N", "O", "P", "Q", "R", "S", "T", "U", "V", "W", "X", "Y", "Z">>

Range(s) == {s[i] : i \in DOMAIN s}

Lower == Range(LowerSeq)

Upper == Range(UpperSeq)

Alnum == Digits \cup Lower \cup Upper

HexDigits == Digits \cup {"a", "b", "c", "d", "e", "f", "A", "B", "C", "D", "E", "F"}

RECURSIVE Flatten(_)
Flatten(ss) == IF ss = <<>> THEN <<>> ELSE Head(ss) \o Flatten(Tail(ss))

HasPrefix(s, p) == Len(s) >= Len(p) /\ SubSeq(s, 1, Len(p)) = p

\* strings.Contains
Contains(s, sub) ==
    \E i \in 1..(Len(s) - Len(sub) + 1) : SubSeq(s, i, i + Len(sub) - 1) = sub

\* position of the first occurrence of character c in s, 0 when absent
IndexOf(s, c) ==
    IF \E i \in DOMAIN s : s[i] = c
    THEN CHOOSE i \in DOMAIN s : s[i] = c /\ \A j \in 1..(i - 1) : s[j] # c
    ELSE 0

ToLowerChar(c) ==
    IF c \in Upper THEN LowerSeq[CHOOSE i \in DOMAIN UpperSeq : UpperSeq[i] = c] ELSE c

ToLower(s) == [i \in DOMAIN s |-> ToLowerChar(s[i])]

\* strings.EqualFold on the ASCII strings of the model
EqualFold(s, t) == ToLower(s) = ToLower(t)

DigitVal(c) == CHOOSE n \in 0..9 : <<"0", "1", "2", "3", "4", "5", "6", "7", "8", "9">>[n + 1] = c

DigitChar(n) == <<"0", "1", "2", "3", "4", "5", "6", "7", "8", "9">>[n + 1]

\* the two hexadecimal digits (upper case) of the byte of a character
ByteHex(c) ==
    CASE c = " "  -> <<"2", "0">>
      [] c = "\"" -> <<"2", "2">>
      [] c = "#"  -> <<"2", "3">>
      [] c = "%"  -> <<"2", "5">>
      [] c = "&"  -> <<"2", "6">>
      [] c = "'"  -> <<"2", "7">>
      [] c = "+"  -> <<"2", "B">>
      [] c = "/"  -> <<"2", "F">>
      [] c = ":"  -> <<"3", "A">>
      [] c = "<"  -> <<"3", "C">>
      [] c = "="  -> <<"3", "D">>
      [] c = ">"  -> <<"3", "E">>
      [] c = "?"  -> <<"3", "F">>

-----------------------------------------------------------------------------
(* Fixed strings of the program                                            *)

ApiPath == <<"/", "a", "p", "i", "/", "v", "2", "?", "a", "p", "i", "k", "e", "y", "=">>

CmdGetActivity == <<"&", "c", "m", "d", "=", "g", "e", "t", "_", "a", "c", "t", "i", "v", "i", "t", "y">>

CmdImageProxy == <<"&", "c", "m", "d", "=", "p", "m", "s", "_", "i", "m", "a", "g", "e", "_", "p", "r", "o", "x", "y", "&", "i", "m", "g", "=">>

PlaceholderURL == <<"h", "t", "t", "p", "s", ":", "/", "/", "p", "l", "a", "c", "e", "h", "o", "l", "d", ".", "c", "o", "/", "1", "2", "0", "x", "1", "8", "0", "/", "e", "e", "e", "/", "c", "c", "c", "?", "t", "e", "x", "t", "=", "N", "o", "+", "A", "r", "t">>

LocalImagePath == <<"/", "i", "m", "a", "g", "e", "?", "i", "m", "g", "=">>

ParamTautulliURL == <<"&", "t", "a", "u", "t", "u", "l", "l", "i", "_", "u", "r", "l", "=">>

ParamApiKey == <<"&", "a", "p", "i", "_", "k", "e", "y", "=">>

KeyImg == <<"i", "m", "g">>

KeyTautulliURL == <<"t", "a", "u", "t", "u", "l", "l", "i", "_", "u", "r", "l">>

KeyApiKey == <<"a", "p", "i", "_", "k", "e", "y">>

SchemeHTTP == <<"h", "t", "t", "p", ":", "/", "/">>

SchemeHTTPS == <<"h", "t", "t", "p", "s", ":", "/", "/">>

FilterFailsafe == <<"#", "Z", "g", "o", "t", "m", "p", "l", "Z">>

Episode == <<"e", "p", "i", "s", "o", "d", "e">>

\* the cap on displayed sessions
MaxDisplay == 4

StatusOK == 200

StatusBadRequest == 400

StatusInternalServerError == 500

-----------------------------------------------------------------------------
(* Library functions the handlers call                                     *)

\* strconv.Atoi: optional sign, then one or more decimal digits (the strings
\* of the model stay far below the range of int, where Atoi reports an error)
RECURSIVE DigitsValue(_)
DigitsValue(s) ==
    IF s = <<>> THEN 0 ELSE 10 * DigitsValue(SubSeq(s, 1, Len(s) - 1)) + DigitVal(s[Len(s)])

Atoi(s) ==
    LET signed == s # <<>> /\ s[1] \in {"+", "-"}
        body   == IF signed THEN Tail(s) ELSE s
    IN  IF body = <<>> \/ \E i \in DOMAIN body : body[i] \notin Digits
        THEN [ok |-> FALSE, v |-> 0]
        ELSE [ok |-> TRUE,
              v  |-> IF signed /\ s[1] = "-" THEN 0 - DigitsValue(body) ELSE DigitsValue(body)]

\* strconv.Itoa, as fmt prints an int inside the template
RECURSIVE NatChars(_)
NatChars(n) == IF n < 10 THEN <<DigitChar(n)>> ELSE NatChars(n \div 10) \o <<DigitChar(n % 10)>>

Itoa(n) == IF n < 0 THEN <<"-">> \o NatChars(0 - n) ELSE NatChars(n)

\* url.QueryEscape: unreserved characters stay, a space becomes "+",
\* every other byte becomes %XX (upper-case hex)
QueryEscapeChar(c) ==
    IF c \in Alnum \cup {"-", "_", ".", "~"} THEN <<c>>
    ELSE IF c = " " THEN <<"+">>
    ELSE <<"%">> \o ByteHex(c)

\* the reference inserted as it came (no url.QueryEscape)
QueryEscapeNone(s) == s

QueryEscape(s) == Flatten([i \in DOMAIN s |-> QueryEscapeChar(s[i])])

\* the characters ByteHex encodes
EscapedChars == {" ", "\"", "#", "%", "&", "'", "+", "/", ":", "<", "=", ">", "?"}

\* the character of a two-digit hexadecimal escape, either case
HexChar(h) == CHOOSE c \in EscapedChars : ToLower(ByteHex(c)) = ToLower(h)

\* url.QueryUnescape: "+" becomes a space, %XX becomes its byte, and a "%"
\* that two hexadecimal digits do not follow is an error
RECURSIVE QueryUnescape(_)
QueryUnescape(s) ==
    IF s = <<>> THEN [ok |-> TRUE, v |-> <<>>]
    ELSE IF s[1] = "%"
         THEN IF Len(s) >= 3 /\ s[2] \in HexDigits /\ s[3] \in HexDigits
              THEN LET rest == QueryUnescape(SubSeq(s, 4, Len(s)))
                   IN  [ok |-> rest.ok, v |-> <<HexChar(SubSeq(s, 2, 3))>> \o rest.v]
              ELSE [ok |-> FALSE, v |-> <<>>]
         ELSE LET rest == QueryUnescape(Tail(s))
              IN  [ok |-> rest.ok, v |-> <<IF s[1] = "+" THEN " " ELSE s[1]>> \o rest.v]

\* strings.Cut: the parts of s around the first c; all of s when c is absent
CutBefore(s, c) == IF IndexOf(s, c) = 0 THEN s ELSE SubSeq(s, 1, IndexOf(s, c) - 1)

CutAfter(s, c) == IF IndexOf(s, c) = 0 THEN <<>> ELSE SubSeq(s, IndexOf(s, c) + 1, Len(s))

\* url.ParseQuery: the pairs between "&", each cut at its first "=", key and
\* value unescaped; a pair that does not unescape is left out
RECURSIVE ParseQuery(_)
ParseQuery(q) ==
    IF q = <<>> THEN <<>>
    ELSE LET pair == CutBefore(q, "&")
             k    == QueryUnescape(CutBefore(pair, "="))
             v    == QueryUnescape(CutAfter(pair, "="))
             rest == ParseQuery(CutAfter(q, "&"))
         IN  IF pair = <<>> \/ ~k.ok \/ ~v.ok THEN rest
             ELSE <<[key |-> k.v, value |-> v.v]>> \o rest

\* r.URL.Query().Get(name): the first value of the name, "" when absent
QueryGet(url, name) ==
    LET pairs == ParseQuery(CutAfter(url, "?"))
        hit(p) == p.key = name
        hits  == SelectSeq(pairs, hit)
    IN  IF hits = <<>> THEN <<>> ELSE hits[1].value

\* html/template htmlReplacementTable (text nodes and quoted attributes)
HtmlEscapeChar(c) ==
    CASE c = "\"" -> <<"&", "#", "3", "4", ";">>
      [] c = "&"  -> <<"&", "a", "m", "p", ";">>
      [] c = "'"  -> <<"&", "#", "3", "9", ";">>
      [] c = "+"  -> <<"&", "#", "4", "3", ";">>
      [] c = "<"  -> <<"&", "l", "t", ";">>
      [] c = ">"  -> <<"&", "g", "t", ";">>
      [] OTHER    -> <<c>>

\* text/template in place of html/template: nothing is escaped
HtmlEscapeNone(s) == s

HtmlEscape(s) == Flatten([i \in DOMAIN s |-> HtmlEscapeChar(s[i])])

\* html/template isSafeURL: a scheme, when there is one, must be http, https or mailto
IsSafeURL(s) ==
    LET i        == IndexOf(s, ":")
        protocol == SubSeq(s, 1, i - 1)
    IN  IF i > 0 /\ ~Contains(protocol, <<"/">>)
        THEN \/ EqualFold(protocol, <<"h", "t", "t", "p">>)
             \/ EqualFold(protocol, <<"h", "t", "t", "p", "s">>)
             \/ EqualFold(protocol, <<"m", "a", "i", "l", "t", "o">>)
        ELSE TRUE

UrlFilter(s) == IF IsSafeURL(s) THEN s ELSE FilterFailsafe

\* html/template urlNormalizer: reserved and unreserved characters and valid
\* %XX triples stay, every other byte becomes %xx (lower-case hex)
UrlNormalize(s) ==
    LET keep(i) ==
            \/ s[i] \in Alnum \cup {"-", ".", "_", "~"}
            \/ s[i] \in {"!", "#", "$", "&", "*", "+", ",", "/", ":", ";", "=", "?", "@", "[", "]"}
            \/ s[i] = "%" /\ i + 2 <= Len(s) /\ s[i + 1] \in HexDigits /\ s[i + 2] \in HexDigits
    IN  Flatten([i \in DOMAIN s |->
                    IF keep(i) THEN <<s[i]>> ELSE <<"%">> \o ToLower(ByteHex(s[i]))])

\* the src="{{.PosterURL}}" pipeline: urlfilter | urlnormalizer | attrescaper
AttrURL(s) == HtmlEscape(UrlNormalize(UrlFilter(s)))

-----------------------------------------------------------------------------
(* Upstream payloads: JSON values and the sessions the model draws from     *)

\* a JSON member: absent, a JSON string or a JSON number
JAbsent == [t |-> "absent", s |-> <<>>, n |-> 0]

JStr(s) == [t |-> "str", s |-> s, n |-> 0]

JNum(n) == [t |-> "num", s |-> <<>>, n |-> n]

RawSession(user, player, gp, title, media, thumb, pp) ==
    [user |-> user, player |-> player, grandparent_title |-> gp, title |-> title,
     media_type |-> media, thumb |-> thumb, progress_percent |-> pp]

Movie == <<"m", "o", "v", "i", "e">>

Foo == <<"F", "o", "o">>

Bar == <<"B", "a", "r">>

Baz == <<"B", "a", "z">>

Tv == <<"t", "v">>

ScriptTag == <<"<", "s", "c", "r", "i", "p", "t", ">">>

Catalogue ==
    << RawSession(<<"a", "l">>, Tv, <<>>, Baz, Movie, <<"a", "/", "b", " ", "c">>, JStr(<<"5", "0">>)),
       RawSession(ScriptTag, Tv, Foo, Bar, Episode, <<>>, JStr(<<>>)),
       RawSession(<<"b", "o">>, <<"p", "&", "c">>, Foo, <<"T", "&", "J">>, <<>>,
                  <<"p", "&", "q", "=", "r", "%">>, JStr(<<"a", "b", "c">>)),
       RawSession(<<"c", "y">>, Tv, Foo, Bar, <<"E", "p", "i", "s", "o", "d", "e">>, <<"t">>,
                  JStr(<<"1", "5", "0">>)),
       RawSession(<<"d", "i">>, Tv, <<"<", "b", ">">>, <<"a", "+", "b">>, Episode,
                  <<"x", ":", "y", "?">>, JStr(<<"-", "5">>)),
       RawSession(<<"e", "d">>, <<"\"", "p", "'">>, <<>>, Baz, Movie, <<>>, JAbsent),
       RawSession(<<"f", "y">>, Tv, <<>>, <<"Q", "u", "x">>, <<"c", "l", "i", "p">>, <<"t">>,
                  JStr(<<"1", "0", "0">>)),
       RawSession(<<"g", "i">>, Tv, <<>>, Baz, Movie, <<"t">>, JNum(45)) >>

\* the longest upstream session list the model draws
MaxSessions == 5

\* an upstream session list: n consecutive catalogue entries from `start`,
\* in catalogue order or reversed
SessionList(start, n, rev) ==
    [i \in 1..n |->
        Catalogue[((start - 1 + (IF rev THEN n - i ELSE i - 1)) % Len(Catalogue)) + 1]]

SessionLists ==
    {SessionList(start, n, rev) :
        start \in DOMAIN Catalogue, n \in 0..MaxSessions, rev \in BOOLEAN}

StreamCounts ==
    {JAbsent, JStr(<<>>), JStr(<<"a", "b", "c">>), JStr(<<"0">>), JStr(<<"3">>),
     JStr(<<"5">>), JStr(<<"-", "1">>), JStr(<<"+", "2">>), JNum(3)}

\* an upstream body: bytes that are not JSON, or the activity envelope
Garbage == [json |-> FALSE, stream_count |-> JAbsent, sessions |-> <<>>]

Activity(sc, ss) == [json |-> TRUE, stream_count |-> sc, sessions |-> ss]

UpstreamBodies == {Garbage} \cup {Activity(sc, ss) : sc \in StreamCounts, ss \in SessionLists}

\* causes of a failed client.Get: the network, or a URL net/http will not fetch
NetworkErrors == {"connection refused", "timeout"}

FetchErrors == NetworkErrors \cup {"unsupported protocol scheme"}

Clocks == {<<"9", ":", "0", "5", " ", "A", "M">>, <<"1", "2", ":", "3", "0", " ", "P", "M">>}

BaseURLs == {<<>>, SchemeHTTP \o <<"h">>, SchemeHTTPS \o <<"h">>, <<"h">>}

ApiKeys == {<<>>, <<"k", "1">>}

ImgRefs == {<<>>, <<"t">>, <<"a", "/", "b", " ", "c">>, <<"p", "&", "q", "=", "r", "%">>}

\* process configuration of the env deployment (main checks both are set)
ConfigURL == SchemeHTTP \o <<"h">>

ConfigKey == <<"k", "1">>

Variants == {"direct", "proxy", "env"}

QueryVariants == {"direct", "proxy"}

-----------------------------------------------------------------------------
(* Decoding the envelope (encoding/json into TautulliResponse)             *)

\* a string-typed member: absent leaves the zero value
JString(j) == IF j.t = "str" THEN j.s ELSE <<>>

\* Session of main.go and part_003; PosterURL and Progress start at their zero values
DecodeSession(r) ==
    [User |-> r.user, Player |-> r.player, GrandparentTitle |-> r.grandparent_title,
     Title |-> r.title, MediaType |-> r.media_type, Thumb |-> r.thumb,
     ProgressPercent |-> JString(r.progress_percent), PosterURL |-> <<>>, Progress |-> 0]

\* Session of part_002: thumb and progress_percent are unknown keys and are skipped
DecodeSessionEnv(r) ==
    [User |-> r.user, Player |-> r.player, GrandparentTitle |-> r.grandparent_title,
     Title |-> r.title, MediaType |-> r.media_type]

\* StreamCount is a string field: a JSON number is an UnmarshalTypeError,
\* and so is a JSON number for progress_percent
DecodeQuery(b) ==
    IF ~b.json THEN [ok |-> FALSE, cause |-> "invalid character", StreamCount |-> <<>>, Sessions |-> <<>>]
    ELSE IF \/ b.stream_count.t = "num"
            \/ \E i \in DOMAIN b.sessions : b.sessions[i].progress_percent.t = "num"
    THEN [ok |-> FALSE, cause |-> "cannot unmarshal number into Go struct field of type string",
          StreamCount |-> <<>>, Sessions |-> <<>>]
    ELSE [ok |-> TRUE, cause |-> "", StreamCount |-> JString(b.stream_count),
          Sessions |-> [i \in DOMAIN b.sessions |-> DecodeSession(b.sessions[i])]]

\* StreamCount is an int field: a JSON string is an UnmarshalTypeError
DecodeEnv(b) ==
    IF ~b.json THEN [ok |-> FALSE, cause |-> "invalid character", StreamCount |-> 0, Sessions |-> <<>>]
    ELSE IF b.stream_count.t = "str"
    THEN [ok |-> FALSE, cause |-> "cannot unmarshal string into Go struct field of type int",
          StreamCount |-> 0, Sessions |-> <<>>]
    ELSE [ok |-> TRUE, cause |-> "", StreamCount |-> b.stream_count.n,
          Sessions |-> [i \in DOMAIN b.sessions |-> DecodeSessionEnv(b.sessions[i])]]

-----------------------------------------------------------------------------
(* Assembling the page                                                     *)

\* strconv.Atoi(StreamCount), 0 on error
StreamCountOf(s) == IF Atoi(s).ok THEN Atoi(s).v ELSE 0

\* the cap left out
TruncateOff(sessions) == sessions

\* if len(sessions) > 4 { sessions = sessions[:4] }
Truncate(sessions) ==
    IF Len(sessions) > MaxDisplay THEN SubSeq(sessions, 1, MaxDisplay) ELSE sessions

\* main.go: the upstream pms_image_proxy URL, base and key inserted as given
DirectPosterURL(thumb, base, key) ==
    base \o ApiPath \o key \o CmdImageProxy \o QueryEscape(thumb)

\* part_003: a reference to the local /image route, every part query-escaped
ProxyPosterURL(thumb, base, key) ==
    LocalImagePath \o QueryEscape(thumb) \o ParamTautulliURL \o QueryEscape(base)
        \o ParamApiKey \o QueryEscape(key)

PosterURLOf(v, thumb, base, key) ==
    IF thumb # <<>>
    THEN IF v = "direct" THEN DirectPosterURL(thumb, base, key)
                         ELSE ProxyPosterURL(thumb, base, key)
    ELSE PlaceholderURL

\* a failed parse stored as a sentinel instead of being skipped
ProgressOfSentinel(s) ==
    IF Atoi(s.ProgressPercent).ok THEN Atoi(s.ProgressPercent).v ELSE 0 - 1

\* if progress, err := strconv.Atoi(...); err == nil { session.Progress = progress }
ProgressOf(s) == IF Atoi(s.ProgressPercent).ok THEN Atoi(s.ProgressPercent).v ELSE s.Progress

NormalizeSession(v, s, base, key) ==
    [s EXCEPT !.PosterURL = PosterURLOf(v, s.Thumb, base, key), !.Progress = ProgressOf(s)]

\* steps 4-6 of httpHandler in main.go and part_003
AssembleQuery(v, d, base, key, clock) ==
    [StreamCount |-> StreamCountOf(d.StreamCount),
     Sessions    |-> [i \in DOMAIN Truncate(d.Sessions) |->
                         NormalizeSession(v, Truncate(d.Sessions)[i], base, key)],
     Timestamp   |-> clock]

\* step 4 of httpHandler in part_002: count and sessions are passed through
AssembleEnv(d, clock) ==
    [StreamCount |-> d.StreamCount, Sessions |-> d.Sessions, Timestamp |-> clock]

-----------------------------------------------------------------------------
(* Rendering: html/template executing htmlTemplate                         *)

\* The output is a sequence of segments.  A "static" segment is a piece of
\* literal template text (one token); every other segment is the escaped
\* value of one template action, character by character.
Seg(tag, text) == [tag |-> tag, text |-> text]

Static(token) == Seg("static", <<token>>)

\* the media type compared without regard to case
IsEpisodeFold(s) == EqualFold(s.MediaType, Episode)

\* {{if eq .MediaType "episode"}}
IsEpisode(s) == s.MediaType = Episode

\* the title line: the series for an episode, the title otherwise
TitleOf(s) == IF IsEpisode(s) THEN s.GrandparentTitle ELSE s.Title

\* one pass of {{range .Sessions}} in main.go and part_003
SessionBlock(v, s) ==
    << Seg("card", <<IF v = "direct" THEN "<div style=\"flex: 1 1 48%\">" ELSE "<div class=\"column\">">>),
       Static("<img src=\""),
       Seg("poster", AttrURL(s.PosterURL)),
       Static("\" alt=\"Poster\" />"),
       Static(IF v = "direct" THEN "<p style=\"font-weight: bold\">" ELSE "<span class=\"widget__title\">"),
       Seg("title", HtmlEscape(TitleOf(s))),
       Static(IF v = "direct" THEN "</p>" ELSE "</span>") >>
    \o (IF IsEpisode(s)
        THEN << Static(IF v = "direct" THEN "<p style=\"font-size: 1rem\">" ELSE "<span class=\"widget__subtitle\">"),
                Seg("subtitle", HtmlEscape(s.Title)),
                Static(IF v = "direct" THEN "</p>" ELSE "</span>") >>
        ELSE <<>>)
    \o << Static(IF v = "direct" THEN "<p style=\"color: #555\">" ELSE "<span class=\"widget__label mt-2\">"),
          Seg("user", HtmlEscape(s.User)),
          Static(IF v = "direct" THEN "</p>" ELSE "</span>"),
          Static("<div style=\"width: "),
          Seg("progress", Itoa(s.Progress)),
          Static("%;\"></div></div>") >>

\* one pass of {{range .Sessions}} in part_002
SessionBlockEnv(s) ==
    << Seg("card", <<"<div class=\"content-element content\">">>),
       Static("<p><strong>"),
       Seg("user", HtmlEscape(s.User)),
       Static("</strong> on "),
       Seg("player", HtmlEscape(s.Player)),
       Static("</p>") >>
    \o (IF IsEpisode(s)
        THEN << Static("<p><em>"),
                Seg("title", HtmlEscape(s.GrandparentTitle)),
                Static("</em> - "),
                Seg("subtitle", HtmlEscape(s.Title)),
                Static("</p></div>") >>
        ELSE << Static("<p><strong>"),
                Seg("title", HtmlEscape(s.Title)),
                Static("</strong></p></div>") >>)

Block(v, s) == IF v = "env" THEN SessionBlockEnv(s) ELSE SessionBlock(v, s)

\* {{if gt .StreamCount 0}} ... {{range .Sessions}} ... {{else}} nothing {{end}}
Render(v, p) ==
    << Static(IF v = "env" THEN "<div class=\"view view--full\">" ELSE "<markup>") >>
    \o (IF p.StreamCount > 0
        THEN Flatten([i \in DOMAIN p.Sessions |-> Block(v, p.Sessions[i])])
        ELSE << Seg("nothing", <<"<p>Nothing is currently playing.</p>">>) >>)
    \o << Static("Updated: "),
          Seg("timestamp", HtmlEscape(p.Timestamp)),
          Static(IF v = "env" THEN "</div>" ELSE "</markup>") >>

-----------------------------------------------------------------------------
(* Responses                                                               *)

NoResponse == [status |-> 0, headers |-> {}, body |-> <<>>]

\* http.Error: plain text, the message and nothing else
HttpError(msg, code) ==
    [status  |-> code,
     headers |-> {<<"Content-Type", "text/plain; charset=utf-8">>,
                  <<"X-Content-Type-Options", "nosniff">>},
     body    |-> <<Seg("error", <<msg>>)>>]

\* the Write call at which the ResponseWriter starts to fail (the client has
\* gone away); 0 when every Write succeeds
WriteFailures == {0, 1, 5}

\* the template fails to execute: one of its Write calls returns an error
ExecuteFails(body, fail) == fail # 0 /\ fail <= Len(body)

\* tmpl.Execute(w, ...) writes node by node into the ResponseWriter: what was
\* written before the failing Write stays written, and later Writes fail too
Written(body, fail) == IF ExecuteFails(body, fail) THEN SubSeq(body, 1, fail - 1) ELSE body

\* w.Header().Set("Content-Type", ...); tmpl.Execute(w, pageData).  The first
\* Write sends the header with status 200, so the WriteHeader(500) of the
\* http.Error that follows a failed Execute has no effect.
HtmlResponse(v, p, fail) ==
    [status  |-> StatusOK,
     headers |-> {<<"Content-Type", "text/html; charset=utf-8">>},
     body    |-> Written(Render(v, p), fail)]

\* log.Printf("Error executing template: %v", err)
ExecuteLog(v, p, fail) ==
    IF ExecuteFails(Render(v, p), fail)
    THEN <<[msg |-> "Error executing template", cause |-> "write error"]>>
    ELSE <<>>

LogEntry(msg, cause) == [msg |-> msg, cause |-> cause]

NoRequest == [path |-> "", raw |-> <<>>, tautulli_url |-> <<>>, api_key |-> <<>>, img |-> <<>>]

\* a request: its parameters as the handler reads them; raw is the path and
\* query a /image request arrived with
Request(path, u, k, img) ==
    [path |-> path, raw |-> <<>>, tautulli_url |-> u, api_key |-> k, img |-> img]

\* part_003 prefixes https:// to a base URL without a scheme; main.go does not
NormalizeBase(v, u) ==
    IF v = "proxy" /\ ~HasPrefix(u, SchemeHTTP) /\ ~HasPrefix(u, SchemeHTTPS)
    THEN SchemeHTTPS \o u
    ELSE u

\* the base URL and key a request works with
BaseOf(v, r) == IF v = "env" THEN ConfigURL ELSE NormalizeBase(v, r.tautulli_url)

KeyOf(v, r) == IF v = "env" THEN ConfigKey ELSE r.api_key

ActivityURL(base, key) == base \o ApiPath \o key \o CmdGetActivity

\* imgPath is appended as Query().Get returned it
ImageURL(base, key, img) == base \o ApiPath \o key \o CmdImageProxy \o img

\* only the base URL checked
MissingParamsURLOnly(v, r) == v \in QueryVariants /\ r.tautulli_url = <<>>

\* client.Get sends nothing for a URL whose scheme is not http or https
CanFetch(url) == HasPrefix(url, SchemeHTTP) \/ HasPrefix(url, SchemeHTTPS)

\* the errors client.Get can return for a URL
FetchErrorsOf(url) == IF CanFetch(url) THEN NetworkErrors ELSE {"unsupported protocol scheme"}

\* if tautulliURL == "" || apiKey == ""
MissingParams(v, r) == v \in QueryVariants /\ (r.tautulli_url = <<>> \/ r.api_key = <<>>)

MissingImageParams(r) == r.tautulli_url = <<>> \/ r.api_key = <<>> \/ r.img = <<>>

-----------------------------------------------------------------------------
(* The state machine: one request at a time, from arrival to response      *)

Init ==
    /\ variant \in Variants
    /\ pc = "idle"
    /\ req = NoRequest
    /\ outbound = <<>>
    /\ upstream = <<>>
    /\ resp = NoResponse
    /\ logged = <<>>
    /\ page = <<>>

\* GET / rejected by the parameter check (main.go 101-105, part_003 139-143)
RootBadRequest(u, k) ==
    /\ pc = "idle"
    /\ MissingParams(variant, Request("/", u, k, <<>>))
    /\ req' = Request("/", u, k, <<>>)
    /\ resp' = HttpError("Missing required query parameters: 'tautulli_url' and 'api_key'",
                         StatusBadRequest)
    /\ logged' = <<LogEntry("Error: Received request with missing 'tautulli_url' or 'api_key' query parameters.", "")>>
    /\ pc' = "done"
    /\ UNCHANGED <<variant, outbound, upstream, page>>

\* GET / accepted: the handler issues client.Get(apiURL) and waits
RootFetch(u, k) ==
    /\ pc = "idle"
    /\ variant = "env" => u = <<>> /\ k = <<>>
    /\ ~MissingParams(variant, Request("/", u, k, <<>>))
    /\ req' = Request("/", u, k, <<>>)
    /\ outbound' = <<ActivityURL(BaseOf(variant, req'), KeyOf(variant, req'))>>
    /\ pc' = "await_activity"
    /\ UNCHANGED <<variant, upstream, resp, logged, page>>

\* client.Get returned an error
ActivityFails(cause) ==
    /\ pc = "await_activity"
    /\ cause \in FetchErrorsOf(outbound[1])
    /\ resp' = HttpError("Failed to connect to Tautulli", StatusInternalServerError)
    /\ logged' = <<LogEntry(IF variant = "env" THEN "Error connecting to Tautulli at http://h"
                                             ELSE "Error connecting to Tautulli", cause)>>
    /\ pc' = "done"
    /\ UNCHANGED <<variant, req, outbound, upstream, page>>

\* the decode error dropped: whatever was decoded is rendered
HandleActivityIgnoringDecodeError(v, r, b, clock, fail) ==
    LET d == IF v = "env" THEN DecodeEnv(b) ELSE DecodeQuery(b)
        p == IF v = "env" THEN AssembleEnv(d, clock)
             ELSE AssembleQuery(v, d, BaseOf(v, r), KeyOf(v, r), clock)
    IN  [resp |-> HtmlResponse(v, p, fail), logged |-> ExecuteLog(v, p, fail), page |-> <<p>>]

\* the rest of httpHandler once the upstream body b has arrived
HandleActivity(v, r, b, clock, fail) ==
    LET d == IF v = "env" THEN DecodeEnv(b) ELSE DecodeQuery(b)
        p == IF v = "env" THEN AssembleEnv(d, clock)
             ELSE AssembleQuery(v, d, BaseOf(v, r), KeyOf(v, r), clock)
    IN  IF ~d.ok
        THEN [resp |-> HttpError("Failed to parse Tautulli response", StatusInternalServerError),
              logged |-> <<LogEntry("Error parsing JSON from Tautulli", d.cause)>>,
              page |-> <<>>]
        ELSE [resp |-> HtmlResponse(v, p, fail), logged |-> ExecuteLog(v, p, fail), page |-> <<p>>]

ActivityResponds(b, clock, fail) ==
    /\ pc = "await_activity"
    /\ CanFetch(outbound[1])
    /\ upstream' = <<b>>
    /\ LET h == HandleActivity(variant, req, b, clock, fail)
       IN  /\ resp' = h.resp
           /\ logged' = h.logged
           /\ page' = h.page
    /\ pc' = "done"
    /\ UNCHANGED <<variant, req, outbound>>

\* the request a client's /image URL becomes: the three parameters as
\* r.URL.Query().Get returns them (part_003 96-98)
ImageRequest(u, k, img) ==
    LET url == ProxyPosterURL(img, u, k)
    IN  [Request("/image", QueryGet(url, KeyTautulliURL), QueryGet(url, KeyApiKey),
                 QueryGet(url, KeyImg)) EXCEPT !.raw = url]

\* GET /image rejected by the parameter check (part_003 100-103)
ImageBadRequest(u, k, img) ==
    /\ pc = "idle"
    /\ variant = "proxy"
    /\ MissingImageParams(ImageRequest(u, k, img))
    /\ req' = ImageRequest(u, k, img)
    /\ resp' = HttpError("Missing required query parameters for image proxy", StatusBadRequest)
    /\ pc' = "done"
    /\ UNCHANGED <<variant, outbound, upstream, logged, page>>

\* GET /image accepted: the proxy issues client.Get(fullImgURL) and waits
ImageFetch(u, k, img) ==
    /\ pc = "idle"
    /\ variant = "proxy"
    /\ ~MissingImageParams(ImageRequest(u, k, img))
    /\ req' = ImageRequest(u, k, img)
    /\ outbound' = <<ImageURL(NormalizeBase(variant, req'.tautulli_url), req'.api_key, req'.img)>>
    /\ pc' = "await_image"
    /\ UNCHANGED <<variant, upstream, resp, logged, page>>

ImageFails(cause) ==
    /\ pc = "await_image"
    /\ cause \in FetchErrorsOf(outbound[1])
    /\ resp' = HttpError("Failed to fetch image from Tautulli", StatusInternalServerError)
    /\ logged' = <<LogEntry("Image proxy failed to connect to Tautulli", cause)>>
    /\ pc' = "done"
    /\ UNCHANGED <<variant, req, outbound, upstream, page>>

ImageStatuses == {200, 404}

ImageHeaders == {{<<"Content-Type", "image/jpeg">>},
                 {<<"Content-Type", "image/png">>, <<"Cache-Control", "max-age=60">>}}

ImageBodies == {<<"b1", "b2">>, <<"b3">>}

\* an upstream answer to the image GET
ImageResponse(st, hs, bytes) == [status |-> st, headers |-> hs, bytes |-> bytes]

\* only the content type copied
RelayContentTypeOnly(hs) == {h \in hs : h[1] = "Content-Type"}

\* for key, values := range resp.Header: w.Header().Add(key, value)
RelayHeaders(hs) == hs

\* io.Copy(w, resp.Body)
RelayBody(bytes) == <<Seg("bytes", bytes)>>

\* the upstream answer is relayed; its status is not, the first Write sends 200
ImageResponds(st, hs, bytes) ==
    /\ pc = "await_image"
    /\ CanFetch(outbound[1])
    /\ upstream' = <<ImageResponse(st, hs, bytes)>>
    /\ resp' = [status |-> StatusOK, headers |-> RelayHeaders(hs), body |-> RelayBody(bytes)]
    /\ pc' = "done"
    /\ UNCHANGED <<variant, req, outbound, logged, page>>

\* the request is over; everything request-scoped is dropped
Finish ==
    /\ pc = "done"
    /\ pc' = "idle"
    /\ req' = NoRequest
    /\ outbound' = <<>>
    /\ upstream' = <<>>
    /\ resp' = NoResponse
    /\ logged' = <<>>
    /\ page' = <<>>
    /\ UNCHANGED variant

Next ==
    \/ \E u \in BaseURLs, k \in ApiKeys : RootBadRequest(u, k)
    \/ \E u \in BaseURLs, k \in ApiKeys : RootFetch(u, k)
    \/ \E c \in FetchErrors : ActivityFails(c)
    \/ \E b \in UpstreamBodies, clock \in Clocks, fail \in WriteFailures :
          ActivityResponds(b, clock, fail)
    \/ \E u \in BaseURLs, k \in ApiKeys, img \in ImgRefs : ImageBadRequest(u, k, img)
    \/ \E u \in BaseURLs, k \in ApiKeys, img \in ImgRefs : ImageFetch(u, k, img)
    \/ \E c \in FetchErrors : ImageFails(c)
    \/ \E st \in ImageStatuses, hs \in ImageHeaders, bytes \in ImageBodies :
          ImageResponds(st, hs, bytes)
    \/ Finish

Spec == Init /\ [][Next]_vars

-----------------------------------------------------------------------------
(* JSON mode.  README.md describes the Go service as a JSON API; its        *)
(* handler is not among the sources, so the renderer below follows the      *)
(* written specification ("serialize DisplayPage directly; content-type     *)
(* application/json") on top of the pipeline of main.go, with the string    *)
(* encoding of encoding/json.                                               *)

\* strings left as they are
JsonEscapeNone(s) == s

\* encoding/json: quote and backslash get a backslash; "<", ">" and "&"
\* become a backslash, "u00" and their two hexadecimal digits in lower case
JsonEscapeChar(c) ==
    IF c \in {"\"", "\\"} THEN <<"\\", c>>
    ELSE IF c \in {"<", ">", "&"} THEN <<"\\", "u", "0", "0">> \o ToLower(ByteHex(c))
    ELSE <<c>>

JsonEscape(s) == Flatten([i \in DOMAIN s |-> JsonEscapeChar(s[i])])

\* the string a JSON string literal stands for
RECURSIVE JsonUnescape(_)
JsonUnescape(s) ==
    IF s = <<>> THEN <<>>
    ELSE IF s[1] = "\\" /\ Len(s) >= 6 /\ s[2] = "u"
         THEN <<HexChar(SubSeq(s, 5, 6))>> \o JsonUnescape(SubSeq(s, 7, Len(s)))
    ELSE IF s[1] = "\\" /\ Len(s) >= 2
         THEN <<s[2]>> \o JsonUnescape(SubSeq(s, 3, Len(s)))
    ELSE <<s[1]>> \o JsonUnescape(Tail(s))

JsonMember(name, text) == <<Static("\"" \o name \o "\":"), Seg(name, text)>>

JsonText(s) == <<"\"">> \o JsonEscape(s) \o <<"\"">>

\* one element of "Sessions"
JsonSession(s) ==
    <<Static("{")>>
    \o JsonMember("user", JsonText(s.User))
    \o JsonMember("player", JsonText(s.Player))
    \o JsonMember("grandparent_title", JsonText(s.GrandparentTitle))
    \o JsonMember("title", JsonText(s.Title))
    \o JsonMember("media_type", JsonText(s.MediaType))
    \o JsonMember("thumb", JsonText(s.Thumb))
    \o JsonMember("progress_percent", JsonText(s.ProgressPercent))
    \o JsonMember("PosterURL", JsonText(s.PosterURL))
    \o JsonMember("Progress", Itoa(s.Progress))
    \o <<Static("}")>>

\* the page as one JSON object
JsonRender(p) ==
    <<Static("{")>>
    \o JsonMember("StreamCount", Itoa(p.StreamCount))
    \o <<Static("\"Sessions\":[")>>
    \o Flatten([i \in DOMAIN p.Sessions |-> JsonSession(p.Sessions[i])])
    \o <<Static("]")>>
    \o JsonMember("Timestamp", JsonText(p.Timestamp))
    \o <<Static("}")>>

JsonResponse(p) ==
    [status  |-> StatusOK,
     headers |-> {<<"Content-Type", "application/json">>},
     body    |-> JsonRender(p)]

\* the values of one member name in a body, in order
JsonValues(body, name) ==
    LET hit(g) == g.tag = name
        segs   == SelectSeq(body, hit)
    IN  [i \in DOMAIN segs |-> segs[i].text]

\* the inside of a string literal: what follows the opening quote, up to
\* the first quote that no backslash escapes
RECURSIVE JsonLiteral(_)
JsonLiteral(s) ==
    IF s = <<>> \/ s[1] = "\"" THEN <<>>
    ELSE IF s[1] = "\\" /\ Len(s) >= 2 THEN <<s[1], s[2]>> \o JsonLiteral(SubSeq(s, 3, Len(s)))
    ELSE <<s[1]>> \o JsonLiteral(Tail(s))

\* the string a value stands for
JsonStringOf(text) == JsonUnescape(JsonLiteral(Tail(text)))

\* the body decoded back into the fields of the page, the timestamp left out
JsonDecode(body) ==
    [StreamCount |-> Atoi(JsonValues(body, "StreamCount")[1]).v,
     Sessions    |->
        [i \in DOMAIN JsonValues(body, "user") |->
            [User             |-> JsonStringOf(JsonValues(body, "user")[i]),
             Player           |-> JsonStringOf(JsonValues(body, "player")[i]),
             GrandparentTitle |-> JsonStringOf(JsonValues(body, "grandparent_title")[i]),
             Title            |-> JsonStringOf(JsonValues(body, "title")[i]),
             MediaType        |-> JsonStringOf(JsonValues(body, "media_type")[i]),
             Thumb            |-> JsonStringOf(JsonValues(body, "thumb")[i]),
             ProgressPercent  |-> JsonStringOf(JsonValues(body, "progress_percent")[i]),
             PosterURL        |-> JsonStringOf(JsonValues(body, "PosterURL")[i]),
             Progress         |-> Atoi(JsonValues(body, "Progress")[i]).v]]]

\* httpHandler of main.go up to PageData, then the page serialized
JsonHandleActivity(v, r, b, clock) ==
    LET h == HandleActivity(v, r, b, clock, 0)
    IN  IF h.page = <<>> THEN h ELSE [h EXCEPT !.resp = JsonResponse(h.page[1])]

JsonActivityResponds(b, clock) ==
    /\ pc = "await_activity"
    /\ CanFetch(outbound[1])
    /\ upstream' = <<b>>
    /\ LET h == JsonHandleActivity(variant, req, b, clock)
       IN  /\ resp' = h.resp
           /\ logged' = h.logged
           /\ page' = h.page
    /\ pc' = "done"
    /\ UNCHANGED <<variant, req, outbound>>

JsonInit == Init /\ variant = "direct"

JsonNext ==
    \/ \E u \in BaseURLs, k \in ApiKeys : RootBadRequest(u, k)
    \/ \E u \in BaseURLs, k \in ApiKeys : RootFetch(u, k)
    \/ \E c \in FetchErrors : ActivityFails(c)
    \/ \E b \in UpstreamBodies, clock \in Clocks : JsonActivityResponds(b, clock)
    \/ Finish

JsonSpec == JsonInit /\ [][JsonNext]_vars

-----------------------------------------------------------------------------
(* Properties                                                              *)

Min(a, b) == IF a < b THEN a ELSE b

\* a GET / request has been answered
RootDone == pc = "done" /\ req.path = "/"

\* ... with a page, rendered to its end (no handler step logged an error)
PageDone == RootDone /\ page # <<>> /\ upstream # <<>> /\ logged = <<>>

ThePage == page[1]

TheBody == upstream[1]

\* page session p is upstream session r, field by field
SameSession(p, r) ==
    /\ p.User = r.user
    /\ p.Player = r.player
    /\ p.GrandparentTitle = r.grandparent_title
    /\ p.Title = r.title
    /\ p.MediaType = r.media_type

\* the segments of the response body with a given tag, in output order
Texts(tag) ==
    LET hit(s) == s.tag = tag
        segs   == SelectSeq(resp.body, hit)
    IN  [i \in DOMAIN segs |-> segs[i].text]

\* an envelope the string-typed structs decode: JSON, string or absent members
Decodable(b) ==
    /\ b.json
    /\ \A i \in DOMAIN b.sessions : b.sessions[i].progress_percent.t # "num"

\* C1: for an upstream list of more than 4 sessions the page holds exactly the
\* first 4 in upstream order, whatever stream_count says, and for n <= 4 all n
\* in order, in every deployment of the handler.
C1_FirstFourInOrder ==
    PageDone =>
        /\ Len(ThePage.Sessions) = Min(4, Len(TheBody.sessions))
        /\ \A i \in DOMAIN ThePage.Sessions : SameSession(ThePage.Sessions[i], TheBody.sessions[i])

\* C2 as stated: a page never carries more sessions than min(4, streamCount),
\* here for the handlers that cap the list.
C2_BoundedByStreamCount ==
    (PageDone /\ variant \in QueryVariants) =>
        Len(ThePage.Sessions) <= Min(4, ThePage.StreamCount)

\* C2 amended: in main.go and part_003 a page carries min(4, n) sessions for n
\* upstream sessions, so never more than 4; the length does not depend on the
\* stream count the page reports.
C2_CappedAtFour ==
    (PageDone /\ variant \in QueryVariants) =>
        /\ Len(ThePage.Sessions) <= 4
        /\ Len(ThePage.Sessions) = Min(4, Len(TheBody.sessions))

C2_Witness ==
    /\ PageDone
    /\ variant \in QueryVariants
    /\ Len(TheBody.sessions) > 4
    /\ Len(ThePage.Sessions) = 4
    /\ ThePage.StreamCount = 0

\* C3: streamCount is n whenever stream_count is the number n, as a numeric
\* string or as a JSON integer; absent, empty or non-numeric gives 0; the
\* request completes with status 200 either way.
C3_CountFromStringOrInteger ==
    (RootDone /\ variant \in QueryVariants /\ upstream # <<>> /\ Decodable(TheBody)) =>
        /\ resp.status = 200
        /\ page # <<>>
        /\ TheBody.stream_count = JNum(3) => ThePage.StreamCount = 3
        /\ TheBody.stream_count = JStr(<<"3">>) => ThePage.StreamCount = 3
        /\ TheBody.stream_count \in {JAbsent, JStr(<<>>), JStr(<<"a", "b", "c">>)}
               => ThePage.StreamCount = 0

C5_ProgressClamped ==
    (PageDone /\ variant \in QueryVariants /\ ThePage.StreamCount > 0) =>
        /\ Len(Texts("progress")) = Len(ThePage.Sessions)
        /\ \A i \in DOMAIN Texts("progress") :
              /\ Atoi(Texts("progress")[i]).ok
              /\ Atoi(Texts("progress")[i]).v \in 0..100

\* the sessions of the page that are episodes, in order
EpisodesOf(ss) ==
    LET ep(s) == s.MediaType = <<"e", "p", "i", "s", "o", "d", "e">>
    IN  SelectSeq(ss, ep)

\* C6: for media_type exactly "episode" the title shown is the series title and
\* a subtitle with the session title is emitted; for any other media_type the
\* title shown is the session title and there is no subtitle.
C6_TitleAndSubtitle ==
    (PageDone /\ ThePage.StreamCount > 0) =>
        /\ Texts("title") =
              [i \in DOMAIN ThePage.Sessions |->
                  HtmlEscape(IF TheBody.sessions[i].media_type = <<"e", "p", "i", "s", "o", "d", "e">>
                             THEN TheBody.sessions[i].grandparent_title
                             ELSE TheBody.sessions[i].title)]
        /\ Texts("subtitle") =
              [i \in DOMAIN EpisodesOf(ThePage.Sessions) |->
                  HtmlEscape(EpisodesOf(ThePage.Sessions)[i].Title)]

C6_Witness ==
    /\ PageDone
    /\ ThePage.StreamCount > 0
    /\ Texts("title") = <<Baz, Foo, <<"T", "&", "a", "m", "p", ";", "J">>, Bar>>
    /\ Texts("subtitle") = <<Bar>>

\* C7: an empty thumb gives exactly the placeholder URL; a non-empty thumb
\* gives a URL that is not the placeholder and contains the percent-encoded
\* thumb (direct: the upstream pms_image_proxy URL, proxy: a local /image
\* reference); no displayed session is left without a poster URL.
C7_PosterURL ==
    (PageDone /\ variant \in QueryVariants) =>
        \A i \in DOMAIN ThePage.Sessions :
            LET thumb == TheBody.sessions[i].thumb
                url   == ThePage.Sessions[i].PosterURL
            IN  /\ url # <<>>
                /\ thumb = <<>> => url = PlaceholderURL
                /\ thumb # <<>> =>
                      /\ url # PlaceholderURL
                      /\ variant = "direct" =>
                            HasPrefix(url, req.tautulli_url \o ApiPath \o req.api_key \o CmdImageProxy)
                      /\ variant = "proxy" => HasPrefix(url, LocalImagePath)
                /\ thumb = <<"a", "/", "b", " ", "c">> =>
                      Contains(url, <<"a", "%", "2", "F", "b", "+", "c">>)
                /\ thumb = <<"p", "&", "q", "=", "r", "%">> =>
                      Contains(url, <<"p", "%", "2", "6", "q", "%", "3", "D", "r", "%", "2", "5">>)
                /\ thumb = <<"x", ":", "y", "?">> =>
                      Contains(url, <<"x", "%", "3", "A", "y", "%", "3", "F">>)
                /\ thumb = <<"t">> => Contains(url, <<"=", "t">>)

C7_Witness ==
    /\ PageDone
    /\ variant = "proxy"
    /\ \E i, j \in DOMAIN ThePage.Sessions :
          /\ TheBody.sessions[i].thumb = <<>>
          /\ ThePage.Sessions[i].PosterURL = PlaceholderURL
          /\ TheBody.sessions[j].thumb = <<"a", "/", "b", " ", "c">>
          /\ Contains(ThePage.Sessions[j].PosterURL, <<"a", "%", "2", "F", "b", "+", "c">>)

\* C8: with query parameters, a GET / without tautulli_url or api_key and a
\* GET /image without tautulli_url, api_key or img is answered 400 in plain
\* text, and no outbound request is issued for it.
C8_MissingParameters ==
    /\ (pc # "idle" /\ variant \in QueryVariants
            /\ (req.tautulli_url = <<>> \/ req.api_key = <<>>
                    \/ (req.path = "/image" /\ req.img = <<>>))) =>
          /\ pc = "done"
          /\ resp.status = 400
          /\ <<"Content-Type", "text/plain; charset=utf-8">> \in resp.headers
          /\ \A i \in DOMAIN resp.body : resp.body[i].tag = "error"
          /\ outbound = <<>>
          /\ upstream = <<>>
          /\ page = <<>>
    /\ (variant \in QueryVariants /\ outbound # <<>>) =>
          req.tautulli_url # <<>> /\ req.api_key # <<>>

C8_Witness ==
    /\ RootDone
    /\ variant = "direct"
    /\ req.tautulli_url # <<>>
    /\ req.api_key = <<>>
    /\ resp.status = 400
    /\ outbound = <<>>

\* C9: a GET / with valid parameters issues exactly one get_activity GET and
\* never a second one; when the call fails or its body does not decode, the
\* answer is 500 with a fixed plain-text body without the error detail, the
\* cause is logged and no page is rendered.
C9_OneFetchNoRetry ==
    (req.path = "/") =>
        /\ Len(outbound) <= 1
        /\ (pc = "await_activity" \/ (pc = "done" /\ resp.status # 400)) =>
              /\ Len(outbound) = 1
              /\ outbound[1] =
                    (IF variant = "env" THEN ConfigURL
                     ELSE IF variant = "proxy" THEN NormalizeBase("proxy", req.tautulli_url)
                     ELSE req.tautulli_url)
                    \o ApiPath \o (IF variant = "env" THEN ConfigKey ELSE req.api_key)
                    \o CmdGetActivity
        /\ (pc = "done" /\ resp.status # 400 /\ (upstream = <<>> \/ ~TheBody.json)) =>
              /\ resp.status = 500
              /\ <<"Content-Type", "text/plain; charset=utf-8">> \in resp.headers
              /\ resp.body \in {<<Seg("error", <<"Failed to connect to Tautulli">>)>>,
                                <<Seg("error", <<"Failed to parse Tautulli response">>)>>}
              /\ Len(logged) = 1
              /\ logged[1].cause \in FetchErrors \cup {"invalid character"}
              /\ \A i \in DOMAIN resp.body : resp.body[i].text # <<logged[1].cause>>
              /\ page = <<>>

C9_Witness ==
    /\ RootDone
    /\ Len(outbound) = 1
    /\ upstream # <<>>
    /\ ~TheBody.json
    /\ resp.status = 500
    /\ page = <<>>

\* the characters that open or close markup or an attribute value
MarkupChars == {"<", ">", "\"", "'"}

\* C10: user, title, series title and player reach the markup escaped: a user
\* of <script> is rendered as &lt;script&gt; and never as raw markup, in every
\* template.
C10_FieldsEscaped ==
    (PageDone /\ ThePage.StreamCount > 0) =>
        /\ \A i \in DOMAIN resp.body :
              resp.body[i].tag \in {"user", "title", "subtitle", "player", "timestamp", "poster"} =>
                  /\ \A j \in DOMAIN resp.body[i].text : resp.body[i].text[j] \notin MarkupChars
                  /\ ~Contains(resp.body[i].text, ScriptTag)
        /\ Len(Texts("user")) = Len(ThePage.Sessions)
        /\ \A i \in DOMAIN ThePage.Sessions :
              ThePage.Sessions[i].User = ScriptTag =>
                  Texts("user")[i] = <<"&", "l", "t", ";", "s", "c", "r", "i", "p", "t", "&", "g", "t", ";">>
        /\ \A i \in DOMAIN ThePage.Sessions :
              ThePage.Sessions[i].Title = <<"T", "&", "J">> /\ ThePage.Sessions[i].MediaType = <<>> =>
                  Texts("title")[i] = <<"T", "&", "a", "m", "p", ";", "J">>

C10_Witness ==
    /\ PageDone
    /\ ThePage.StreamCount > 0
    /\ \E i \in DOMAIN ThePage.Sessions :
          /\ ThePage.Sessions[i].User = ScriptTag
          /\ Texts("user")[i] = <<"&", "l", "t", ";", "s", "c", "r", "i", "p", "t", "&", "g", "t", ";">>

\* a GET /image request has been answered
ImageDone == pc = "done" /\ req.path = "/image"

C13_ProxyRoundTrip ==
    (req.path = "/image" /\ outbound # <<>>) =>
        \A t \in ImgRefs, u \in BaseURLs, k \in ApiKeys :
            req.raw = ProxyPosterURL(t, u, k) =>
                outbound[1] = DirectPosterURL(t, NormalizeBase(variant, u), k)

\* the base URL with https:// put in front unless it starts with http:// or
\* https://
WithScheme(u) == IF HasPrefix(u, SchemeHTTP) \/ HasPrefix(u, SchemeHTTPS) THEN u ELSE SchemeHTTPS \o u

\* C14: in the handlers that take the base URL from the query, every outbound
\* request goes to the base URL given a scheme (https:// when it has none,
\* unchanged when it starts with http:// or https://, and normalizing twice
\* changes nothing), so every outbound URL starts with http:// or https://.
C14_BaseURLNormalized ==
    (variant \in QueryVariants /\ outbound # <<>>) =>
        /\ WithScheme(WithScheme(req.tautulli_url)) = WithScheme(req.tautulli_url)
        /\ HasPrefix(outbound[1], WithScheme(req.tautulli_url) \o ApiPath)
        /\ HasPrefix(outbound[1], SchemeHTTP) \/ HasPrefix(outbound[1], SchemeHTTPS)

\* the template failed to execute on an assembled page
RenderFailed == RootDone /\ page # <<>> /\ logged # <<>>

\* C15: when the template fails to execute, the client gets status 500 and
\* the generic error text only: no part of the rendered page and no status 200.
C15_NoPartialOutput ==
    RenderFailed =>
        /\ resp.status = StatusInternalServerError
        /\ resp.body = <<Seg("error", <<"Failed to render template">>)>>

\* C16: the rendered page shows "Nothing is currently playing." exactly when
\* the page has no session, and otherwise one session block per session; a
\* page with sessions never renders as empty, whatever its stream count.
C16_BranchBySessionList ==
    PageDone =>
        /\ Texts("nothing") # <<>> <=> ThePage.Sessions = <<>>
        /\ Len(Texts("card")) = Len(ThePage.Sessions)
====
